---- MODULE Spec2Model ----
(***************************************************************************)
(* A model of the SimpleTokenizer of openclip.ts                           *)
(* (src/src/tokenizers/SimpleTokenizer.ts).                                *)
(*                                                                         *)
(* A string is a sequence of UTF-16 code units (natural numbers); a symbol *)
(* of the vocabulary, a chunk, a merge line and a text are all strings.    *)
(* A JavaScript Map is a function; get(k) is undefined when k is outside   *)
(* its domain.                                                             *)
(*                                                                         *)
(* The module also models the retrieval of a model file by getModelFile    *)
(* (src/src/utils/hub.ts), as a second state machine, HubSpec.             *)
(***************************************************************************)
EXTENDS Naturals, Integers, Sequences, FiniteSets, TLC

VARIABLES
    config,     \* the configuration the instance was constructed with
    cache,      \* this.cache, the merge cache of the instance
    pc,         \* the caller: "idle", "returned" from a call, or "failed"
                \* when the constructor threw
    op,         \* the method the caller called last
    arg,        \* its argument
    res,        \* what it returned or that it threw
    prior,      \* this.cache as it was when the call started
    ncalls,     \* the number of calls made so far
    hub         \* one call of getModelFile: its environment, the files that
                \* exist, its position and its response

vars == <<config, cache, pc, op, arg, res, prior, ncalls, hub>>

----------------------------------------------------------------------------
(* Bounds of the model *)

\* longest plain input text, counted in characters
MaxItems == 2
\* largest configured contextLength
MaxContext == 3
\* most texts in one tokenize batch
MaxBatch == 2
\* longest id sequence handed to decode
MaxIds == 2
\* most calls made on one tokenizer instance
MaxCalls == 2

----------------------------------------------------------------------------
(* Generic helpers on sequences *)

Range(s) == {s[i] : i \in DOMAIN s}

Min(a, b) == IF a < b THEN a ELSE b

RECURSIVE Flatten(_)
\* the concatenation of a sequence of sequences
Flatten(ss) == IF ss = <<>> THEN <<>> ELSE Head(ss) \o Flatten(Tail(ss))

Max(a, b) == IF a > b THEN a ELSE b

\* Array.prototype.slice(from, to): 0-based, end-exclusive, a negative index
\* counts from the end
Slice(s, from, to) ==
    LET rel(k) == IF k < 0 THEN Max(Len(s) + k, 0) ELSE Min(k, Len(s))
    IN  IF rel(to) <= rel(from) THEN <<>> ELSE SubSeq(s, rel(from) + 1, rel(to))

\* does string p occur in string s at 1-based position i
PrefixAt(s, i, p) ==
    /\ i + Len(p) - 1 <= Len(s)
    /\ \A k \in 1..Len(p) : s[i + k - 1] = p[k]

----------------------------------------------------------------------------
(* Code units used by the source *)

SP == 32
\* "</w>", the word-final marker
EndOfWord == <<60, 47, 119, 62>>
\* "<start_of_text>"
sotToken == <<60, 115, 116, 97, 114, 116, 95, 111, 102, 95, 116, 101, 120, 116, 62>>
\* "<end_of_text>"
eotToken == <<60, 101, 110, 100, 95, 111, 102, 95, 116, 101, 120, 116, 62>>

----------------------------------------------------------------------------
(* createByteEncoderDecoder *)

\* the three ranges of bytes that map to themselves: "!".."~", 161..172, 174..255
NiceBytes ==
    [i \in 1..94 |-> 32 + i] \o [i \in 1..12 |-> 160 + i] \o [i \in 1..82 |-> 173 + i]

\* the bytes the loop `for (b = 0; b < 256; b++)` finds missing
MissingBytes == {b \in 0..255 : b \notin Range(NiceBytes)}

\* a gap loop that never advances n: every missing byte gets the code unit 256
ByteTableSameGap ==
    [ bytes |-> NiceBytes \o
                [k \in 1..Cardinality(MissingBytes) |->
                    CHOOSE b \in MissingBytes :
                        Cardinality({x \in MissingBytes : x < b}) = k - 1],
      copyBytes |-> NiceBytes \o [k \in 1..Cardinality(MissingBytes) |-> 256] ]

\* the loop visits the missing bytes in ascending order: the one with n
\* missing bytes below it is appended with the code unit 256 + n
ByteTable ==
    LET below(b) == Cardinality({x \in MissingBytes : x < b})
        count == Cardinality(MissingBytes)
    IN  [ bytes |-> NiceBytes \o
                    [k \in 1..count |-> CHOOSE b \in MissingBytes : below(b) = k - 1],
          copyBytes |-> NiceBytes \o [k \in 1..count |-> 256 + (k - 1)] ]

\* Map<number, string>: byte -> one-character string
byteEncoder ==
    [b \in Range(ByteTable.bytes) |->
        <<ByteTable.copyBytes[CHOOSE i \in DOMAIN ByteTable.bytes : ByteTable.bytes[i] = b]>>]

\* byteEncoder.values(), in insertion order
byteEncoderValues == [i \in DOMAIN ByteTable.bytes |-> <<ByteTable.copyBytes[i]>>]

\* Map<string, number>, keyed here by the character's code unit
byteDecoder ==
    [c \in Range(ByteTable.copyBytes) |->
        ByteTable.bytes[CHOOSE i \in DOMAIN ByteTable.copyBytes : ByteTable.copyBytes[i] = c]]

----------------------------------------------------------------------------
(* Character classes of the code units the model uses *)

\* \s of a JavaScript regular expression, and the characters trim() removes
IsSpace(c) ==
    c \in {9, 10, 11, 12, 13, 32, 160, 5760, 8232, 8233, 8239, 8287, 12288, 65279}
          \cup (8192..8202)

\* \p{L}: ASCII and Latin-1 letters, and the Greek letters
IsLetter(c) ==
    c \in (65..90) \cup (97..122) \cup {170, 181, 186} \cup (192..214)
          \cup (216..246) \cup (248..255) \cup (913..929) \cup (931..969) \cup {8486}

\* \p{N}: ASCII digits and the Latin-1 superscripts and fractions
IsNumber(c) == c \in (48..57) \cup {178, 179, 185, 188, 189, 190}

\* the characters of "!\"#$%&'()*+,-./:;<=>?@[\\]^_`{|}~"
IsPunctuation(c) == c \in (33..47) \cup (58..64) \cup (91..96) \cup (123..126)

\* String.prototype.toLowerCase on one code unit
LowerChar(c) ==
    IF c \in 65..90 THEN c + 32
    ELSE IF c \in (192..214) \cup (216..222) THEN c + 32
    ELSE IF c \in (913..929) \cup (931..939) THEN c + 32
    ELSE IF c = 8486 THEN 969
    ELSE c

toLowerCase(s) == [i \in DOMAIN s |-> LowerChar(s[i])]

RECURSIVE TrimStart(_)
TrimStart(s) == IF s # <<>> /\ IsSpace(Head(s)) THEN TrimStart(Tail(s)) ELSE s

RECURSIVE TrimEnd(_)
TrimEnd(s) ==
    IF s # <<>> /\ IsSpace(s[Len(s)]) THEN TrimEnd(SubSeq(s, 1, Len(s) - 1)) ELSE s

\* String.prototype.trim
Trim(s) == TrimEnd(TrimStart(s))

RECURSIVE SplitOn(_, _, _, _)
\* String.prototype.split(" "): the pieces between the separating spaces
SplitOn(s, i, cur, acc) ==
    IF i > Len(s) THEN Append(acc, cur)
    ELSE IF s[i] = SP THEN SplitOn(s, i + 1, <<>>, Append(acc, cur))
    ELSE SplitOn(s, i + 1, Append(cur, s[i]), acc)

SplitSpace(s) == SplitOn(s, 1, <<>>, <<>>)

RECURSIVE JoinSpace(_)
\* Array.prototype.join(" ")
JoinSpace(ss) ==
    IF ss = <<>> THEN <<>>
    ELSE IF Len(ss) = 1 THEN ss[1]
    ELSE ss[1] \o <<SP>> \o JoinSpace(Tail(ss))

----------------------------------------------------------------------------
(* The merge artifacts: each is the sequence of lines of the unzipped file *)

\* "#version: 0.2" stands as "#"
HeaderLine == <<35>>

BpeFiles == <<
    \* "a b", "", "ab a</w>", "a a</w>", ""
    << HeaderLine,
       <<97, 32, 98>>,
       <<>>,
       <<97, 98, 32, 97, 60, 47, 119, 62>>,
       <<97, 32, 97, 60, 47, 119, 62>>,
       <<>> >>,
    \* "a a", "! !</w>", " ", "a a</w>", "a a", "a b", "b a</w>", "a ba</w>"
    << HeaderLine,
       <<97, 32, 97>>,
       <<33, 32, 33, 60, 47, 119, 62>>,
       <<SP>>,
       <<97, 32, 97, 60, 47, 119, 62>>,
       <<97, 32, 97>>,
       <<97, 32, 98>>,
       <<98, 32, 97, 60, 47, 119, 62>>,
       <<97, 32, 98, 97, 60, 47, 119, 62>> >>
>>

\* 49152 - 256 - 2 + 1, the end of the slice of merge lines
MergeSliceEnd == 48895

readBPEVocab(bpePath) ==
    LET lines == BpeFiles[bpePath]
        slicedLines == Slice(lines, 1, MergeSliceEnd)
    IN  SelectSeq(slicedLines, LAMBDA line : Trim(line) # <<>>)

\* Map<string, number> built from merges.map((merge, index) => [merge, index]):
\* a later entry with the same key replaces the earlier one
bpeRanksOf(merges) ==
    [m \in Range(merges) |->
        (CHOOSE i \in DOMAIN merges :
            merges[i] = m /\ \A j \in DOMAIN merges : merges[j] = m => j <= i) - 1]

\* a vocabulary without the merged pairs
createVocabNoMerges(merges) ==
    LET base == byteEncoderValues
        withEnd == [i \in DOMAIN base |-> base[i] \o EndOfWord]
    IN  base \o withEnd

createVocab(merges) ==
    LET base == byteEncoderValues
        withEnd == [i \in DOMAIN base |-> base[i] \o EndOfWord]
        merged == [i \in DOMAIN merges |-> SelectSeq(merges[i], LAMBDA c : c # SP)]
    IN  base \o withEnd \o merged

getSpecialTokens(additionalSpecialTokens) ==
    <<sotToken, eotToken>> \o additionalSpecialTokens

\* Map<string, number>: a later entry with the same key replaces the earlier one
encoderOf(vocab) ==
    [t \in Range(vocab) |->
        (CHOOSE i \in DOMAIN vocab :
            vocab[i] = t /\ \A j \in DOMAIN vocab : vocab[j] = t => j <= i) - 1]

\* Map<number, string>
decoderOf(vocab) == [i \in 0..(Len(vocab) - 1) |-> vocab[i + 1]]

createEncoderDecoder(vocab) == [encoder |-> encoderOf(vocab), decoder |-> decoderOf(vocab)]

----------------------------------------------------------------------------
(* Text cleaning *)

\* String.prototype.normalize("NFKC") on the code units of the model: the
\* ohm sign becomes the Greek capital omega, the no-break space a space, the
\* feminine ordinal indicator an "a"; the other code units used are stable
NFKCChar(c) ==
    IF c = 8486 THEN 937
    ELSE IF c = 160 THEN SP
    ELSE IF c = 170 THEN 97
    ELSE c

normalizeNFKC(s) == [i \in DOMAIN s |-> NFKCChar(s[i])]

\* the named entities the texts of the model can hold: "&lt;", "&gt;", "&amp;"
Entities == <<
    [name |-> <<38, 108, 116, 59>>, char |-> 60],
    [name |-> <<38, 103, 116, 59>>, char |-> 62],
    [name |-> <<38, 97, 109, 112, 59>>, char |-> 38] >>

RECURSIVE DecodeFrom(_, _)
DecodeFrom(s, i) ==
    IF i > Len(s) THEN <<>>
    ELSE IF \E e \in DOMAIN Entities : PrefixAt(s, i, Entities[e].name)
         THEN LET e == CHOOSE x \in DOMAIN Entities : PrefixAt(s, i, Entities[x].name)
              IN  <<Entities[e].char>> \o DecodeFrom(s, i + Len(Entities[e].name))
         ELSE <<s[i]>> \o DecodeFrom(s, i + 1)

\* decodeHTML of the "entities" package
decodeHTML(s) == DecodeFrom(s, 1)

basicClean(text) == Trim(decodeHTML(decodeHTML(normalizeNFKC(text))))

RECURSIVE CollapseSpace(_, _)
\* every maximal run of whitespace becomes one space
CollapseSpace(s, i) ==
    IF i > Len(s) THEN <<>>
    ELSE IF IsSpace(s[i])
         THEN IF i > 1 /\ IsSpace(s[i - 1]) THEN CollapseSpace(s, i + 1)
              ELSE <<SP>> \o CollapseSpace(s, i + 1)
         ELSE <<s[i]>> \o CollapseSpace(s, i + 1)

\* text.split(/\s+/).join(" ") and trim
whitespaceClean(text) == Trim(CollapseSpace(text, 1))

\* with the default options: no keepPunctuationExactString
canonicalizeText(text) ==
    LET noUnderscore == [i \in DOMAIN text |-> IF text[i] = 95 THEN SP ELSE text[i]]
        noPunctuation == SelectSeq(noUnderscore, LAMBDA c : ~IsPunctuation(c))
    IN  Trim(CollapseSpace(toLowerCase(noPunctuation), 1))

cleanCanonicalize(text) == canonicalizeText(basicClean(text))

cleanLower(text) == toLowerCase(whitespaceClean(basicClean(text)))

cleanWhitespace(text) == whitespaceClean(basicClean(text))

\* the function getCleanFunction returns, applied to text
cleanFn(clean, text) ==
    IF clean = "canonicalize" THEN cleanCanonicalize(text)
    ELSE IF clean = "lower" THEN cleanLower(text)
    ELSE cleanWhitespace(text)

----------------------------------------------------------------------------
(* The segmenter: text.match(this.patterns) *)

\* "'s", "'t", "'re", "'ve", "'m", "'ll", "'d"
Contractions == <<
    <<39, 115>>, <<39, 116>>, <<39, 114, 101>>, <<39, 118, 101>>,
    <<39, 109>>, <<39, 108, 108>>, <<39, 100>> >>

\* a literal of the pattern matches at i, ignoring case (flag i)
LiteralAt(s, i, p) ==
    /\ i + Len(p) - 1 <= Len(s)
    /\ \A k \in 1..Len(p) : LowerChar(s[i + k - 1]) = LowerChar(p[k])

IsOther(c) == ~IsSpace(c) /\ ~IsLetter(c) /\ ~IsNumber(c)

RECURSIVE RunLength(_, _, _)
\* the length of the longest run of characters of one class starting at i
RunLength(s, i, class) ==
    IF i > Len(s) THEN 0
    ELSE IF (class = "L" /\ IsLetter(s[i])) \/ (class = "O" /\ IsOther(s[i]))
         THEN 1 + RunLength(s, i + 1, class)
         ELSE 0

\* the length of the match of the pattern at position i, 0 when there is none:
\* the alternatives are tried in the order of the pattern
MatchLength(s, i, specialTokens) ==
    LET literals == specialTokens \o Contractions
    IN  IF \E k \in DOMAIN literals : LiteralAt(s, i, literals[k])
        THEN LET k == CHOOSE x \in DOMAIN literals :
                        /\ LiteralAt(s, i, literals[x])
                        /\ \A y \in 1..(x - 1) : ~LiteralAt(s, i, literals[y])
             IN  Len(literals[k])
        ELSE IF IsLetter(s[i]) THEN RunLength(s, i, "L")
        ELSE IF IsNumber(s[i]) THEN 1
        ELSE RunLength(s, i, "O")

RECURSIVE MatchFromSkipping(_, _, _)
\* a scan that resumes one character after the end of each match
MatchFromSkipping(s, i, specialTokens) ==
    IF i > Len(s) THEN <<>>
    ELSE LET n == MatchLength(s, i, specialTokens)
         IN  IF n = 0 THEN MatchFromSkipping(s, i + 1, specialTokens)
             ELSE <<SubSeq(s, i, i + n - 1)>> \o MatchFromSkipping(s, i + n + 1, specialTokens)

RECURSIVE MatchFrom(_, _, _)
MatchFrom(s, i, specialTokens) ==
    IF i > Len(s) THEN <<>>
    ELSE LET n == MatchLength(s, i, specialTokens)
         IN  IF n = 0 THEN MatchFrom(s, i + 1, specialTokens)
             ELSE <<SubSeq(s, i, i + n - 1)>> \o MatchFrom(s, i + n, specialTokens)

\* text.match(this.patterns) || []
match(text, specialTokens) == MatchFrom(text, 1, specialTokens)

----------------------------------------------------------------------------
(* The constructor *)

\* getCleanFunction: the name of the function returned, or "throw" for the
\* error "Invalid cleaning function"
getCleanFunction(cleanFunction) ==
    IF cleanFunction \in {"canonicalize", "lower", "whitespace"}
    THEN cleanFunction ELSE "throw"

\* getReductionMaskFn: the name of the function returned, or "throw" for the
\* error "Reduction Type Function not found"
getReductionMaskFn(reductionType) ==
    IF reductionType \in {"simple", "random", "shuffle", "syntax"}
    THEN reductionType ELSE "throw"

\* the truth value JavaScript gives a configured name: null (written "null")
\* and the empty string are falsy
Truthy(name) == name \notin {"null", ""}

\* this.config.reductionMask ? this.getReductionMaskFn(...) : null
ReductionFnOf(reductionMask) ==
    IF Truthy(reductionMask) THEN getReductionMaskFn(reductionMask) ELSE "null"

\* the constructor ends in an error instead of an instance
ConstructorThrows(cfg) ==
    \/ getCleanFunction(cfg.clean) = "throw"
    \/ ReductionFnOf(cfg.reductionMask) = "throw"

\* the state of an instance after construction; the byte codec is the same
\* for every instance and stays in byteEncoder and byteDecoder
constructor(cfg) ==
    LET merges == readBPEVocab(cfg.bpePath)
        specialTokens == getSpecialTokens(cfg.additionalSpecialTokens)
        vocab == createVocab(merges) \o specialTokens
        maps == createEncoderDecoder(vocab)
    IN  [ contextLength |-> cfg.contextLength,
          bpeRanks |-> bpeRanksOf(merges),
          cache |-> [t \in Range(specialTokens) |-> t],
          specialTokens |-> specialTokens,
          encoder |-> maps.encoder,
          decoder |-> maps.decoder,
          sotTokenId |-> maps.encoder[sotToken],
          eotTokenId |-> maps.encoder[eotToken],
          clean |-> getCleanFunction(cfg.clean),
          reductionFn |-> ReductionFnOf(cfg.reductionMask) ]

----------------------------------------------------------------------------
(* bpe *)

\* a comparison that prefers the higher rank
RankMore(bpeRanks, pair, best) ==
    /\ pair \in DOMAIN bpeRanks
    /\ (best \in DOMAIN bpeRanks => bpeRanks[pair] > bpeRanks[best])

\* rank < bestRank, where a pair absent from the merge table ranks Infinity
RankLess(bpeRanks, pair, best) ==
    /\ pair \in DOMAIN bpeRanks
    /\ (best \in DOMAIN bpeRanks => bpeRanks[pair] < bpeRanks[best])

getPairs(word) ==
    IF Len(word) < 2 THEN <<>>
    ELSE [i \in 1..(Len(word) - 1) |-> word[i] \o <<SP>> \o word[i + 1]]

RECURSIVE ReducePairs(_, _, _, _)
\* pairs.reduce((best, pair) => rank(pair) < rank(best) ? pair : best)
ReducePairs(bpeRanks, pairs, k, best) ==
    IF k > Len(pairs) THEN best
    ELSE ReducePairs(bpeRanks, pairs, k + 1,
                     IF RankLess(bpeRanks, pairs[k], best) THEN pairs[k] ELSE best)

\* word.indexOf(first, i), 0-based, -1 when absent
IndexOf(word, first, i) ==
    IF \E j \in i..(Len(word) - 1) : word[j + 1] = first
    THEN CHOOSE j \in i..(Len(word) - 1) :
            word[j + 1] = first /\ \A k \in i..(j - 1) : word[k + 1] # first
    ELSE -1

RECURSIVE MergeScanRepeat(_, _, _, _, _)
\* a scan that steps one symbol, not two, past a merged pair
MergeScanRepeat(word, first, second, i, newWord) ==
    IF i >= Len(word) THEN newWord
    ELSE LET j == IndexOf(word, first, i)
         IN  IF j = -1 THEN newWord \o Slice(word, i, Len(word))
             ELSE LET kept == newWord \o Slice(word, i, j)
                  IN  IF j < Len(word) - 1 /\ word[j + 2] = second
                      THEN MergeScanRepeat(word, first, second, j + 1, Append(kept, first \o second))
                      ELSE MergeScanRepeat(word, first, second, j + 1, Append(kept, word[j + 1]))

RECURSIVE MergeScanDropsRest(_, _, _, _, _)
\* a scan that leaves out the symbols after the last occurrence of first
MergeScanDropsRest(word, first, second, i, newWord) ==
    IF i >= Len(word) THEN newWord
    ELSE LET j == IndexOf(word, first, i)
         IN  IF j = -1 THEN newWord
             ELSE LET kept == newWord \o Slice(word, i, j)
                  IN  IF j < Len(word) - 1 /\ word[j + 2] = second
                      THEN MergeScanDropsRest(word, first, second, j + 2, Append(kept, first \o second))
                      ELSE MergeScanDropsRest(word, first, second, j + 1, Append(kept, word[j + 1]))

RECURSIVE MergeScan(_, _, _, _, _)
\* the loop `while (i < word.length)` that builds newWord
MergeScan(word, first, second, i, newWord) ==
    IF i >= Len(word) THEN newWord
    ELSE LET j == IndexOf(word, first, i)
         IN  IF j = -1 THEN newWord \o Slice(word, i, Len(word))
             ELSE LET kept == newWord \o Slice(word, i, j)
                  IN  IF j < Len(word) - 1 /\ word[j + 2] = second
                      THEN MergeScan(word, first, second, j + 2, Append(kept, first \o second))
                      ELSE MergeScan(word, first, second, j + 1, Append(kept, word[j + 1]))

RECURSIVE MergeLoop(_, _, _)

\* the end of one iteration: `if (word.length === 1) break`, else the pairs
\* of the new word
MergeNext(bpeRanks, newWord) ==
    IF Len(newWord) = 1 THEN newWord
    ELSE MergeLoop(bpeRanks, newWord, getPairs(newWord))

\* an iteration that merges its bigram whether the merge table holds it or not
MergeBigramAlways(bpeRanks, word, bigram) ==
    MergeNext(bpeRanks, MergeScan(word, SplitSpace(bigram)[1], SplitSpace(bigram)[2], 0, <<>>))

\* a loop that stops after its first merge
MergeBigramOnce(bpeRanks, word, bigram) ==
    IF bigram \notin DOMAIN bpeRanks THEN word
    ELSE MergeScan(word, SplitSpace(bigram)[1], SplitSpace(bigram)[2], 0, <<>>)

\* one iteration for the bigram chosen: `if (!this.bpeRanks.has(bigram)) break`,
\* else [first, second] = bigram.split(" ") and the scan of the word
MergeBigram(bpeRanks, word, bigram) ==
    IF bigram \notin DOMAIN bpeRanks THEN word
    ELSE MergeNext(bpeRanks,
             MergeScan(word, SplitSpace(bigram)[1], SplitSpace(bigram)[2], 0, <<>>))

\* the loop `while (true)` of bpe
MergeLoop(bpeRanks, word, pairs) ==
    MergeBigram(bpeRanks, word, ReducePairs(bpeRanks, pairs, 2, pairs[1]))

\* the bigram the reduce of one iteration leaves for word
Bigram(bpeRanks, word) == ReducePairs(bpeRanks, getPairs(word), 2, getPairs(word)[1])

\* the new word one iteration builds from word and its bigram
NewWord(word, bigram) ==
    MergeScan(word, SplitSpace(bigram)[1], SplitSpace(bigram)[2], 0, <<>>)

RECURSIVE LoopWords(_, _)
\* the values of word at the head of the iterations of `while (true)`, for a
\* word of two symbols or more
LoopWords(bpeRanks, word) ==
    IF Bigram(bpeRanks, word) \notin DOMAIN bpeRanks THEN {word}
    ELSE IF Len(NewWord(word, Bigram(bpeRanks, word))) = 1 THEN {word}
    ELSE {word} \cup LoopWords(bpeRanks, NewWord(word, Bigram(bpeRanks, word)))

\* [...token.slice(0, -1), token.slice(-1) + "</w>"]
InitialWord(token) ==
    IF token = <<>> THEN <<EndOfWord>>
    ELSE [i \in 1..Len(token) |->
            IF i < Len(token) THEN <<token[i]>> ELSE <<token[i]>> \o EndOfWord]

\* a cache that keeps the unmerged word instead of the result
CacheSetUnmerged(cch, token, result) == (token :> JoinSpace(InitialWord(token))) @@ cch

\* what bpe stores in the cache for token
CacheSet(cch, token, result) == (token :> result) @@ cch

\* the end of bpe after the merge loop: the result is stored and returned
BpeStore(cch, token, result) == [out |-> result, cache |-> CacheSet(cch, token, result)]

\* bpe from the pairs of the initial word on: `if (pairs.length === 0)`
\* returns without touching the cache
\* an early return that forgets the word-final marker
BpePairsNoMarker(self, token, cch, word, pairs) ==
    IF Len(pairs) = 0
    THEN [out |-> token, cache |-> cch]
    ELSE BpeStore(cch, token, JoinSpace(MergeLoop(self.bpeRanks, word, pairs)))

BpePairs(self, token, cch, word, pairs) ==
    IF Len(pairs) = 0
    THEN [out |-> token \o EndOfWord, cache |-> cch]
    ELSE BpeStore(cch, token, JoinSpace(MergeLoop(self.bpeRanks, word, pairs)))

\* bpe from the initial word on
BpeWord(self, token, cch, word) == BpePairs(self, token, cch, word, getPairs(word))

\* bpe(token) on an instance whose cache is cch: the string returned and the
\* cache afterwards
bpe(self, token, cch) ==
    \* `if (cacheToken)`: an entry that is not the empty string
    IF token \in DOMAIN cch /\ cch[token] # <<>>
    THEN [out |-> cch[token], cache |-> cch]
    ELSE BpeWord(self, token, cch, InitialWord(token))

----------------------------------------------------------------------------
(* encode and decode *)

\* Array.from(token, char => byteEncoder.get(char.charCodeAt(0))): TRUE when
\* no character of the token makes the callback throw
HasByteEncoding(token) == \A i \in DOMAIN token : token[i] \in DOMAIN byteEncoder

EncodeToken(token) == Flatten([i \in DOMAIN token |-> byteEncoder[token[i]]])

\* `if (id) bpeTokens.push(id)` for the pieces of one chunk
RECURSIVE PieceIds(_, _)
PieceIds(self, bpeParts) ==
    IF bpeParts = <<>> THEN <<>>
    ELSE LET bpeToken == Head(bpeParts)
             rest == PieceIds(self, Tail(bpeParts))
         IN  IF bpeToken \in DOMAIN self.encoder /\ self.encoder[bpeToken] # 0
             THEN <<self.encoder[bpeToken]>> \o rest
             ELSE rest

RECURSIVE EncodeLoop(_, _, _, _, _)

\* the rest of one iteration, r being what bpe returned for chunk i: the ids
\* of this.bpe(encodedToken).split(" ") are pushed
EncodeParts(self, tokens, i, bpeTokens, r) ==
    EncodeLoop(self, tokens, i + 1,
               bpeTokens \o PieceIds(self, SplitSpace(r.out)), r.cache)

\* the loop over the chunks: the ids so far and the cache so far
EncodeLoop(self, tokens, i, bpeTokens, cch) ==
    IF i > Len(tokens) THEN [threw |-> FALSE, ids |-> bpeTokens, cache |-> cch]
    ELSE IF ~HasByteEncoding(tokens[i])
         THEN [threw |-> TRUE, ids |-> <<>>, cache |-> cch]
         ELSE EncodeParts(self, tokens, i, bpeTokens,
                          bpe(self, EncodeToken(tokens[i]), cch))

\* encode(text) on an instance whose cache is cch
encode(self, text, cch) ==
    EncodeLoop(self, match(cleanFn(self.clean, text), self.specialTokens), 1, <<>>, cch)

\* the symbols of the ids that the decoder knows, concatenated
RECURSIVE DecodeText(_, _)
DecodeText(self, tokens) ==
    IF tokens = <<>> THEN <<>>
    ELSE IF Head(tokens) \in DOMAIN self.decoder /\ self.decoder[Head(tokens)] # <<>>
         THEN self.decoder[Head(tokens)] \o DecodeText(self, Tail(tokens))
         ELSE DecodeText(self, Tail(tokens))

\* `if (b) byteArray.push(b)` for every character of the text
RECURSIVE DecodeBytes(_)
DecodeBytes(text) ==
    IF text = <<>> THEN <<>>
    ELSE IF Head(text) \in DOMAIN byteDecoder /\ byteDecoder[Head(text)] # 0
         THEN <<byteDecoder[Head(text)]>> \o DecodeBytes(Tail(text))
         ELSE DecodeBytes(Tail(text))

\* the byte array decode hands to TextDecoder
decodeByteArray(self, tokens) == DecodeBytes(DecodeText(self, tokens))

RECURSIVE Utf8Decode(_)
\* new TextDecoder("utf-8", { fatal: false }).decode: one- and two-byte
\* sequences, U+FFFD for any other byte (the ids of the model decode to
\* bytes below 0x80)
Utf8Decode(bytes) ==
    IF bytes = <<>> THEN <<>>
    ELSE IF bytes[1] < 128 THEN <<bytes[1]>> \o Utf8Decode(Tail(bytes))
    ELSE IF bytes[1] \in 194..223 /\ Len(bytes) >= 2 /\ bytes[2] \in 128..191
         THEN <<(bytes[1] - 192) * 64 + (bytes[2] - 128)>> \o Utf8Decode(Tail(Tail(bytes)))
    ELSE <<65533>> \o Utf8Decode(Tail(bytes))

\* a decode that leaves the word-final marker in its output
ReplaceNone(s, pattern, by) == s

\* String.prototype.replace(pattern, by) with a string pattern: the first
\* occurrence only
ReplaceFirst(s, pattern, by) ==
    IF \E i \in 1..Len(s) : PrefixAt(s, i, pattern)
    THEN LET i == CHOOSE x \in 1..Len(s) :
                    PrefixAt(s, x, pattern) /\ \A y \in 1..(x - 1) : ~PrefixAt(s, y, pattern)
         IN  SubSeq(s, 1, i - 1) \o by \o SubSeq(s, i + Len(pattern), Len(s))
    ELSE s

decode(self, tokens) ==
    ReplaceFirst(Utf8Decode(decodeByteArray(self, tokens)), EndOfWord, <<SP>>)

----------------------------------------------------------------------------
(* tokenize and the reduction functions *)

\* the result of a call that threw
Thrown == [kind |-> "throw"]

\* new ort.Tensor("int32", data, dims)
Tensor(data, dims) == [kind |-> "tensor", data |-> data, dims |-> dims]

\* new Int32Array(n), all zero
ZeroArray(n) == [k \in 1..n |-> 0]

\* a write that lands one element late
WriteAtNext(data, idx, v) ==
    IF idx + 1 >= 0 /\ idx + 1 < Len(data) THEN [data EXCEPT ![idx + 2] = v] ELSE data

\* data[idx] = v on a typed array: a write outside the array is ignored
WriteAt(data, idx, v) ==
    IF idx >= 0 /\ idx < Len(data) THEN [data EXCEPT ![idx + 1] = v] ELSE data

RECURSIVE WriteTokens(_, _, _, _)
\* data[start + j] = tokens[j] for j from the 0-based position j0 on
WriteTokens(data, start, tokens, j0) ==
    IF j0 >= Len(tokens) THEN data
    ELSE WriteTokens(WriteAt(data, start + j0, tokens[j0 + 1]), start, tokens, j0 + 1)

RECURSIVE EncodeAll(_, _, _, _, _)

\* the callback of the map for text i, e being what encode returned: a throw
\* ends the map
EncodeOne(self, texts, i, acc, e) ==
    IF e.threw THEN [threw |-> TRUE, all |-> <<>>, cache |-> e.cache]
    ELSE EncodeAll(self, texts, i + 1, Append(acc, e.ids), e.cache)

\* texts.map((text) => this.encode(text)): the encodings and the cache
EncodeAll(self, texts, i, acc, cch) ==
    IF i > Len(texts) THEN [threw |-> FALSE, all |-> acc, cache |-> cch]
    ELSE EncodeOne(self, texts, i, acc, encode(self, texts[i], cch))

\* a truncation that forgets to set the last token
TruncateOnly(self, tokens) ==
    IF Len(tokens) > self.contextLength THEN Slice(tokens, 0, self.contextLength) ELSE tokens

\* the truncation of tokenize: slice(0, contextLength), then the last token
\* becomes the end-of-text id
Truncate(self, tokens) ==
    IF Len(tokens) > self.contextLength
    THEN LET cut == Slice(tokens, 0, self.contextLength)
         IN  IF cut = <<>> THEN cut ELSE [cut EXCEPT ![Len(cut)] = self.eotTokenId]
    ELSE tokens

RECURSIVE TokenizeRows(_, _, _, _)
\* the loop of tokenize over allTokens, writing row i (1-based here)
TokenizeRows(self, allTokens, i, flatResult) ==
    IF i > Len(allTokens) THEN flatResult
    ELSE LET tokens == Truncate(self, allTokens[i])
         IN  TokenizeRows(self, allTokens, i + 1,
                 WriteTokens(flatResult, (i - 1) * self.contextLength, tokens, 0))

\* [this.sotTokenId, ...this.encode(text), this.eotTokenId] for every text
WrapAll(self, all) ==
    [i \in DOMAIN all |-> <<self.sotTokenId>> \o all[i] \o <<self.eotTokenId>>]

\* tokenize after the map, e being the encodings of the texts
TokenizeEncoded(self, texts, e) ==
    IF e.threw THEN [res |-> Thrown, cache |-> e.cache]
    ELSE [res |-> Tensor(TokenizeRows(self, WrapAll(self, e.all), 1,
                                      ZeroArray(Len(texts) * self.contextLength)),
                         <<Len(texts), self.contextLength>>),
          cache |-> e.cache]

\* tokenize(texts) for an array of texts on an instance whose cache is cch
tokenize(self, texts, cch) ==
    TokenizeEncoded(self, texts, EncodeAll(self, texts, 1, <<>>, cch))

\* row i (0-based) of a tensor of shape [n, L]
Row(t, i) == SubSeq(t.data, i * t.dims[2] + 1, (i + 1) * t.dims[2])

\* the window or the indices one text keeps when its encoding is oversized
Oversized(self, tokens) == Len(tokens) > self.contextLength - 2

RECURSIVE SimpleRows(_, _, _, _, _)
\* the loop of simpleMaskTokenize; startIndexes[i] is the value of
\* Math.floor(Math.random() * (numTokens - numKeep + 1)) drawn for text i
SimpleRows(self, allTokens, startIndexes, i, resultData) ==
    IF i > Len(allTokens) THEN resultData
    ELSE LET numTokens == Len(allTokens[i])
             numKeep == self.contextLength - 2
             kept == IF numTokens > self.contextLength - 2
                     THEN Slice(allTokens[i], startIndexes[i], startIndexes[i] + numKeep)
                     ELSE allTokens[i]
             tokens == <<self.sotTokenId>> \o kept \o <<self.eotTokenId>>
         IN  SimpleRows(self, allTokens, startIndexes, i + 1,
                 WriteTokens(resultData, (i - 1) * self.contextLength, tokens, 0))

\* simpleMaskTokenize after the map, e being the encodings of the texts
SimpleEncoded(self, texts, e, startIndexes) ==
    IF e.threw THEN [res |-> Thrown, cache |-> e.cache]
    ELSE [res |-> Tensor(SimpleRows(self, e.all, startIndexes, 1,
                                    ZeroArray(Len(texts) * self.contextLength)),
                         <<Len(texts), self.contextLength>>),
          cache |-> e.cache]

simpleMaskTokenize(self, texts, cch, startIndexes) ==
    SimpleEncoded(self, texts, EncodeAll(self, texts, 1, <<>>, cch), startIndexes)

\* a draw whose inclusive range is one too long
SimpleDrawsPastEnd(self, all) ==
    { d \in [DOMAIN all -> 0..(Len(Flatten(all)) + 2)] :
        \A i \in DOMAIN all :
            IF Oversized(self, all[i])
            THEN d[i] <= Len(all[i]) - (self.contextLength - 2) + 1
            ELSE d[i] = 0 }

\* the values Math.random can give startIndex for each encoding
SimpleDraws(self, all) ==
    { d \in [DOMAIN all -> 0..(Len(Flatten(all)) + 2)] :
        \A i \in DOMAIN all :
            IF Oversized(self, all[i])
            THEN d[i] <= Len(all[i]) - (self.contextLength - 2)
            ELSE d[i] = 0 }

\* a sort that leaves the indices in draw order
SortNone(indices) == indices

\* indices.sort((a, b) => a - b)
RECURSIVE SortAscending(_)
SortAscending(indices) ==
    IF indices = <<>> THEN <<>>
    ELSE LET m == CHOOSE x \in Range(indices) : \A y \in Range(indices) : x <= y
         IN  <<m>> \o SortAscending(SelectSeq(indices, LAMBDA x : x # m))

RECURSIVE RandomRows(_, _, _, _, _, _)
\* the loop of randomMaskTokenize; shuffled[i] is the order the random sort
\* leaves the indices 0..numTokens-1 of text i in
RandomRows(self, allTokens, shuffle, shuffled, i, resultData) ==
    IF i > Len(allTokens) THEN resultData
    ELSE LET numKeep == self.contextLength - 2
             over == Len(allTokens[i]) > self.contextLength - 2
             sliced == Slice(shuffled[i], 0, numKeep)
             indices == IF shuffle THEN sliced ELSE SortAscending(sliced)
             tokens == IF over THEN [k \in DOMAIN indices |-> allTokens[i][indices[k] + 1]]
                       ELSE allTokens[i]
             numTokens == IF over THEN numKeep ELSE Len(allTokens[i])
             startIdx == (i - 1) * self.contextLength
             withSot == WriteAt(resultData, startIdx, self.sotTokenId)
             withTokens == WriteTokens(withSot, startIdx + 1, tokens, 0)
             withEot == WriteAt(withTokens, startIdx + 1 + numTokens, self.eotTokenId)
         IN  RandomRows(self, allTokens, shuffle, shuffled, i + 1, withEot)

\* randomMaskTokenize after the map, e being the encodings of the texts
RandomEncoded(self, texts, shuffle, e, shuffled) ==
    IF e.threw THEN [res |-> Thrown, cache |-> e.cache]
    ELSE [res |-> Tensor(RandomRows(self, e.all, shuffle, shuffled, 1,
                                    ZeroArray(Len(texts) * self.contextLength)),
                         <<Len(texts), self.contextLength>>),
          cache |-> e.cache]

randomMaskTokenize(self, texts, shuffle, cch, shuffled) ==
    RandomEncoded(self, texts, shuffle, EncodeAll(self, texts, 1, <<>>, cch), shuffled)

\* the permutations of 0..n-1
IndexOrders(n) ==
    { p \in [1..n -> 0..(n - 1)] : \A i, j \in 1..n : p[i] = p[j] => i = j }

\* the orders the random sort can leave the indices of each encoding in
RandomDraws(all) ==
    { d \in [DOMAIN all -> UNION { IndexOrders(Len(all[i])) : i \in DOMAIN all }] :
        \A i \in DOMAIN all : d[i] \in IndexOrders(Len(all[i])) }

\* the results of the function getReductionMaskFn returned, one for every
\* value Math.random can draw, e being the encodings of the texts
ReductionEncoded(self, texts, e) ==
    IF e.threw THEN {[res |-> Thrown, cache |-> e.cache]}
    ELSE IF self.reductionFn = "simple"
    THEN { SimpleEncoded(self, texts, e, d) : d \in SimpleDraws(self, e.all) }
    ELSE { RandomEncoded(self, texts, self.reductionFn = "shuffle", e, d) :
             d \in RandomDraws(e.all) }

\* the results this.reductionFn(texts) can return, each with the cache it leaves
reductionFn(self, texts, cch) ==
    ReductionEncoded(self, texts, EncodeAll(self, texts, 1, <<>>, cch))

----------------------------------------------------------------------------
(* The inputs of the model *)

\* the characters texts are made of: "a" and "!"
Items == {97, 33}

\* the ohm sign, which NFKC turns into a letter outside the byte range
OhmSign == <<8486>>

\* the texts handed to the reduction function: up to MaxItems characters, and
\* the ohm sign
PlainTexts == UNION { [1..n -> Items] : n \in 0..MaxItems } \cup {OhmSign}

\* the texts handed to encode and tokenize: the plain texts, "a  !",
\* "<start_of_text>" and "!<start_of_text>"
Texts == PlainTexts \cup { <<97, SP, SP, 33>>, sotToken, <<33>> \o sotToken }

\* the texts batches are made of: "", "a!" and the ohm sign
BatchTexts == {<<>>, <<97, 33>>, OhmSign}

Batches ==
    { [kind |-> "array", value |-> b] : b \in UNION { [1..n -> BatchTexts] : n \in 0..MaxBatch } }

\* the arguments of tokenize: a string or an array of strings
TokenizeArgs == { [kind |-> "string", value |-> t] : t \in Texts } \cup Batches

\* "a!aa", a text of three chunks with three different ids
ThreeChunks == <<97, 33, 97, 97>>

\* the arguments of the reduction function
ReductionArgs ==
    { [kind |-> "string", value |-> t] : t \in PlainTexts \cup {ThreeChunks} } \cup Batches

\* `typeof texts === "string" ? [texts] : texts`
AsArray(a) == IF a.kind = "string" THEN <<a.value>> ELSE a.value

\* the chunks handed to bpe directly: "", "a", "aa", "ab", "aba", "aaaaa",
\* "ababa" and "<start_of_text>"
BpeArgs ==
    { <<>>, <<97>>, <<97, 97>>, <<97, 98>>, <<97, 98, 97>>,
      <<97, 97, 97, 97, 97>>, <<97, 98, 97, 98, 97>>, sotToken }

\* ids handed to decode: the symbol of byte 0, "a</w>", and an id no
\* vocabulary of the model has
IdPool == {188, 320, 600}

DecodeArgs == UNION { [1..n -> IdPool] : n \in 0..MaxIds }

\* a context that keeps two ids of a reduced encoding
LongContext == MaxContext + 1

ContextLengths == 1..LongContext

CleanFunctions == {"canonicalize", "lower", "whitespace"}

\* the cleaning names a caller configures: the three functions and "upper",
\* which getCleanFunction does not know
CleanNames == CleanFunctions \cup {"upper"}

\* null stands as "null"; "syntax" needs the part-of-speech tagger of the
\* natural package and is not among the instances of the model
ReductionFunctions == {"null", "simple", "random", "shuffle"}

\* none, "<M>", and the one-letter token "a"
AdditionalSpecialTokens == { <<>>, << <<60, 77, 62>> >>, << <<97>> >> }

\* the reduction names a caller configures: the functions of the model, the
\* empty string, and "first", which getReductionMaskFn does not know
ReductionNames == ReductionFunctions \cup {"", "first"}

\* the configurations handed to the constructor: the first merge file and the
\* defaults of the constructor (clean "lower", no additional special token)
\* with every context length and every reduction name, and with the longest
\* context and no reduction mask every merge file, cleaning name and
\* additional special token; the random and the shuffle reduction also have
\* the context one longer
ConfigInputs ==
    { cfg \in [ bpePath : DOMAIN BpeFiles,
                additionalSpecialTokens : AdditionalSpecialTokens,
                contextLength : ContextLengths,
                clean : CleanNames,
                reductionMask : ReductionNames ] :
        \/ /\ cfg.bpePath = 1 /\ cfg.clean = "lower" /\ cfg.additionalSpecialTokens = <<>>
           /\ \/ cfg.contextLength <= MaxContext
              \/ cfg.reductionMask \in {"random", "shuffle"}
        \/ cfg.contextLength = MaxContext /\ cfg.reductionMask = "null" }

\* the configurations the constructor makes an instance of
Configs == { cfg \in ConfigInputs : ~ConstructorThrows(cfg) }

\* the instance each configuration constructs, tabulated once
Instances == [cfg \in Configs |-> constructor(cfg)] @@ <<>>

this == Instances[config]

----------------------------------------------------------------------------
(* The state machine: one tokenizer instance and its caller *)

NoValue == [kind |-> "none"]

\* getModelFile is not called
NoHub == [pc |-> "none"]

\* the state after new SimpleTokenizer(config): an instance that waits for
\* calls, or no instance when the constructor threw
Init ==
    /\ config \in ConfigInputs
    /\ cache = IF ConstructorThrows(config) THEN <<>> ELSE Instances[config].cache
    /\ pc = IF ConstructorThrows(config) THEN "failed" ELSE "idle"
    /\ op = "none"
    /\ arg = NoValue
    /\ res = NoValue
    /\ prior = NoValue
    /\ ncalls = 0
    /\ hub = NoHub

CanCall == pc = "idle" /\ ncalls < MaxCalls

\* a return that leaves the cache cleared
CalledWithClearedCache(name, a, r, cch) ==
    /\ pc' = "returned"
    /\ op' = name
    /\ arg' = a
    /\ res' = r
    /\ cache' = <<>>
    /\ prior' = cache
    /\ ncalls' = ncalls + 1
    /\ UNCHANGED <<config, hub>>

Called(name, a, r, cch) ==
    /\ pc' = "returned"
    /\ op' = name
    /\ arg' = a
    /\ res' = r
    /\ cache' = cch
    /\ prior' = cache
    /\ ncalls' = ncalls + 1
    /\ UNCHANGED <<config, hub>>

\* what the caller of encode sees: the ids, or the error thrown
EncodeResult(e) == IF e.threw THEN Thrown ELSE [kind |-> "ids", ids |-> e.ids]

CallEncode ==
    /\ CanCall
    /\ \E text \in Texts :
         \E e \in {encode(this, text, cache)} :
             Called("encode", [kind |-> "string", value |-> text], EncodeResult(e), e.cache)

CallTokenize ==
    /\ CanCall
    /\ \E a \in TokenizeArgs :
         \E r \in {tokenize(this, AsArray(a), cache)} :
             Called("tokenize", a, r.res, r.cache)

CallBpe ==
    /\ CanCall
    /\ \E token \in BpeArgs :
         \E r \in {bpe(this, token, cache)} :
             Called("bpe", [kind |-> "string", value |-> token],
                    [kind |-> "string", value |-> r.out], r.cache)

CallDecode ==
    /\ CanCall
    /\ \E tokens \in DecodeArgs :
         Called("decode", [kind |-> "ids", ids |-> tokens],
                [kind |-> "string", value |-> decode(this, tokens),
                 bytes |-> decodeByteArray(this, tokens)], cache)

\* decode(encode(text)): the caller hands the ids that encode returned to
\* decode; the argument keeps the text they came from
CallDecodeEncoded ==
    /\ pc = "returned" /\ op = "encode" /\ res.kind = "ids"
    /\ ncalls < MaxCalls
    /\ Called("decode", [kind |-> "ids", ids |-> res.ids, text |-> arg.value],
              [kind |-> "string", value |-> decode(this, res.ids),
               bytes |-> decodeByteArray(this, res.ids)], cache)

\* a call of the function the constructor stored in reductionFn
CallReduction ==
    /\ CanCall
    /\ this.reductionFn # "null"
    /\ \E a \in ReductionArgs :
         \E r \in reductionFn(this, AsArray(a), cache) :
             Called("reduction", a, r.res, r.cache)

\* the caller takes the result
Return ==
    /\ pc = "returned"
    /\ pc' = "idle"
    /\ op' = "none"
    /\ arg' = NoValue
    /\ res' = NoValue
    /\ prior' = NoValue
    /\ UNCHANGED <<config, cache, ncalls, hub>>

Next ==
    \/ CallEncode
    \/ CallTokenize
    \/ CallBpe
    \/ CallDecode
    \/ CallDecodeEncoded
    \/ CallReduction
    \/ Return

Spec == Init /\ [][Next]_vars

TypeOK ==
    /\ config \in ConfigInputs
    /\ pc \in {"idle", "returned", "failed"}
    /\ pc = "failed" <=> config \notin Configs
    /\ ncalls \in 0..MaxCalls

----------------------------------------------------------------------------
(* The retrieval of a model file: getModelFile of utils/hub.ts *)

\* the settings getModelFile reads from env: whether the file system is
\* used, whether local and remote models are allowed, and whether the cache
\* is a FileCache or absent
Envs ==
    [ useFS : BOOLEAN, allowLocalModels : BOOLEAN,
      allowRemoteModels : BOOLEAN, useFSCache : BOOLEAN ]

\* the names tryCache looks up
CacheNames == {"localPath", "remoteURL"}

\* what exists outside the program: the names the cache holds, whether the
\* file is at the local path, what a fetch of the local path does when the
\* file is not there (a 404 response, or a rejected promise), and what a fetch
\* of the remote URL does (a 200 response, a 404 response, a rejection)
Worlds ==
    [ cached : SUBSET CacheNames, local : BOOLEAN,
      localFetch : {"404", "rejects"}, remote : {"200", "404", "rejects"} ]

NoResponse == [kind |-> "none", status |-> 0, from |-> "none"]

\* new FileResponse(filePath): status 200 when the file exists, else 404
FileResponse(exists, from) ==
    [kind |-> "FileResponse", status |-> IF exists THEN 200 ELSE 404, from |-> from]

\* a Response of the Fetch API
Response(status, from) == [kind |-> "Response", status |-> status, from |-> from]

\* the catch of getModelFile: the error is thrown again when fatal, else an
\* empty array is returned
Caught(h) ==
    [h EXCEPT !.pc = IF h.fatal THEN "threw" ELSE "returned",
              !.result = IF h.fatal THEN "error" ELSE "empty"]

\* getModelFile up to initializeCache and constructFilePaths: the two
\* configuration checks
GetModelFile ==
    /\ hub.pc = "called"
    /\ hub' = IF \/ ~hub.env.allowLocalModels /\ hub.local_files_only
                 \/ ~hub.env.allowLocalModels /\ ~hub.env.allowRemoteModels
              THEN Caught(hub)
              ELSE [hub EXCEPT !.pc = "cache"]
    /\ UNCHANGED <<config, cache, pc, op, arg, res, prior, ncalls>>

\* tryCache(cache, localPath, remoteURL): the first of the two names the
\* FileCache holds a file for
TryCache ==
    /\ hub.pc = "cache"
    /\ hub' = IF hub.env.useFSCache /\ hub.files.cached \cap CacheNames # {}
              THEN [hub EXCEPT !.pc = "process",
                               !.response = FileResponse(TRUE, "cache")]
              ELSE [hub EXCEPT !.pc = "local"]
    /\ UNCHANGED <<config, cache, pc, op, arg, res, prior, ncalls>>

\* getFile(localPath): a FileResponse when the file system is used, whether
\* the file exists or not; else a fetch, whose rejection is the only outcome
\* that is thrown
GetLocalFile ==
    /\ hub.pc = "local"
    /\ hub' =
         IF ~hub.env.allowLocalModels THEN [hub EXCEPT !.pc = "remote"]
         ELSE IF hub.env.useFS
         THEN [hub EXCEPT !.pc = "process", !.requested = @ \cup {"localPath"},
                          !.response = FileResponse(hub.files.local, "localPath")]
         ELSE IF hub.files.local \/ hub.files.localFetch = "404"
         THEN [hub EXCEPT !.pc = "process", !.requested = @ \cup {"localPath"},
                          !.response = Response(IF hub.files.local THEN 200 ELSE 404,
                                                "localPath")]
         ELSE [hub EXCEPT !.pc = "remote", !.requested = @ \cup {"localPath"}]
    /\ UNCHANGED <<config, cache, pc, op, arg, res, prior, ncalls>>

\* getFile(remoteURL) and handleError; without remote models the error of
\* line 520, or an empty Response when the file is optional
GetRemoteFile ==
    /\ hub.pc = "remote"
    /\ hub' =
         IF ~hub.env.allowRemoteModels
         THEN IF hub.fatal THEN Caught(hub)
              ELSE [hub EXCEPT !.pc = "process", !.response = Response(200, "none")]
         ELSE LET h == [hub EXCEPT !.requested = @ \cup {"remoteURL"}]
              IN  IF hub.files.remote = "rejects" THEN Caught(h)
                  ELSE IF hub.files.remote = "404" /\ hub.fatal THEN Caught(h)
                  ELSE [h EXCEPT !.pc = "process",
                                 !.response = Response(IF hub.files.remote = "200"
                                                       THEN 200 ELSE 404, "remoteURL")]
    /\ UNCHANGED <<config, cache, pc, op, arg, res, prior, ncalls>>

\* processFileResponse without a progress callback: response.arrayBuffer(),
\* which reads the file of a FileResponse and fails when it does not exist
ProcessFileResponse ==
    /\ hub.pc = "process"
    /\ hub' = IF hub.response.kind = "FileResponse" /\ hub.response.status = 404
              THEN Caught(hub)
              ELSE [hub EXCEPT !.pc = "store", !.result = hub.response.from]
    /\ UNCHANGED <<config, cache, pc, op, arg, res, prior, ncalls>>

\* addToCache: a Response with status 200 is put in the FileCache under the
\* cache key; then getModelFile returns the buffer
AddToCache ==
    /\ hub.pc = "store"
    /\ hub' = IF /\ hub.env.useFSCache
                 /\ hub.response.kind = "Response" /\ hub.response.status = 200
              THEN [hub EXCEPT !.pc = "returned",
                               !.files.cached = @ \cup {"cacheKey"}]
              ELSE [hub EXCEPT !.pc = "returned"]
    /\ UNCHANGED <<config, cache, pc, op, arg, res, prior, ncalls>>

\* one call of getModelFile in any environment, with no tokenizer in use
HubInit ==
    /\ config \in {cfg \in Configs : /\ cfg.bpePath = 1
                                     /\ cfg.additionalSpecialTokens = <<>>
                                     /\ cfg.contextLength = MaxContext
                                     /\ cfg.clean = "lower"
                                     /\ cfg.reductionMask = "simple"}
    /\ cache = Instances[config].cache
    /\ pc = "idle"
    /\ op = "none"
    /\ arg = NoValue
    /\ res = NoValue
    /\ prior = NoValue
    /\ ncalls = 0
    /\ hub \in [ env : Envs, fatal : BOOLEAN, local_files_only : BOOLEAN,
                 files : Worlds, pc : {"called"}, response : {NoResponse},
                 requested : {{}}, result : {"none"} ]

HubNext ==
    \/ GetModelFile
    \/ TryCache
    \/ GetLocalFile
    \/ GetRemoteFile
    \/ ProcessFileResponse
    \/ AddToCache

\* every awaited step of the call settles
HubSpec == HubInit /\ [][HubNext]_vars /\ WF_vars(HubNext)

-----------------------------------------------------------------------------
(* Properties *)

Returned(name) == pc = "returned" /\ op = name

\* encode(text) on a freshly constructed instance of the same configuration
FreshEncode(text) == encode(this, text, this.cache)

\* the texts of the last tokenize call
CalledTexts == AsArray(arg)

\* C1: for every batch of texts and every contextLength L, tokenize returns a
\* buffer of shape [number of texts, L] and every row starts with the
\* start-of-text id
C1_TokenizeShapeAndStart ==
    Returned("tokenize") =>
        /\ res.kind = "tensor"
        /\ res.dims = <<Len(CalledTexts), this.contextLength>>
        /\ Len(res.data) = Len(CalledTexts) * this.contextLength
        /\ \A i \in 0..(Len(CalledTexts) - 1) : Row(res, i)[1] = this.sotTokenId

\* the ids of the pieces that the vocabulary holds, id 0 included
RECURSIVE KnownPieceIds(_, _)
KnownPieceIds(self, bpeParts) ==
    IF bpeParts = <<>> THEN <<>>
    ELSE IF Head(bpeParts) \in DOMAIN self.encoder
         THEN <<self.encoder[Head(bpeParts)]>> \o KnownPieceIds(self, Tail(bpeParts))
         ELSE KnownPieceIds(self, Tail(bpeParts))

\* chunk by chunk and piece by piece, the id of every piece of the vocabulary
EveryKnownPiece(self, text) ==
    LET tokens == match(cleanFn(self.clean, text), self.specialTokens)
    IN  Flatten([i \in DOMAIN tokens |->
            KnownPieceIds(self,
                SplitSpace(bpe(self, EncodeToken(tokens[i]), self.cache).out))])

\* C2: encode emits, in chunk order and piece order, the id of every piece
\* that is in the vocabulary, the piece with id 0 included
C2_EncodeEmitsEveryKnownPiece ==
    Returned("encode") /\ res.kind = "ids" => res.ids = EveryKnownPiece(this, arg.value)

\* the symbols of the ids the decoder has an entry for
RECURSIVE KnownSymbols(_, _)
KnownSymbols(self, tokens) ==
    IF tokens = <<>> THEN <<>>
    ELSE IF Head(tokens) \in DOMAIN self.decoder
         THEN self.decoder[Head(tokens)] \o KnownSymbols(self, Tail(tokens))
         ELSE KnownSymbols(self, Tail(tokens))

\* the byte of every character the byte decoder has an entry for
RECURSIVE KnownBytes(_)
KnownBytes(text) ==
    IF text = <<>> THEN <<>>
    ELSE IF Head(text) \in DOMAIN byteDecoder
         THEN <<byteDecoder[Head(text)]>> \o KnownBytes(Tail(text))
         ELSE KnownBytes(Tail(text))

\* C3: decode never raises and drops only unknown ids and characters without
\* a byte-decoder entry: every other character contributes its byte, byte 0
\* included
C3_DecodeKeepsEveryKnownByte ==
    Returned("decode") =>
        /\ res.kind = "string"
        /\ res.bytes = KnownBytes(KnownSymbols(this, arg.ids))

Occurrences(s, p) == Cardinality({i \in 1..Len(s) : PrefixAt(s, i, p)})

CountOf(ids, id) == Cardinality({i \in DOMAIN ids : ids[i] = id})

\* C4: a special token literal in the text is never split: under every
\* cleaning strategy encode emits its reserved id once for each occurrence,
\* and that id alone when the text is the literal
C4_SpecialTokenNeverSplit ==
    Returned("encode") /\ res.kind = "ids" =>
        \A k \in DOMAIN this.specialTokens :
            LET token == this.specialTokens[k]
            IN  /\ CountOf(res.ids, this.encoder[token]) = Occurrences(arg.value, token)
                /\ arg.value = token => res.ids = <<this.encoder[token]>>

\* C5: with a reduction mask configured, the buffers tokenize can return for
\* its texts are the buffers the configured reduction policy can return
\* (stated for the arguments the model hands to the reduction function)
C5_TokenizeAppliesReduction ==
    Returned("tokenize") /\ this.reductionFn # "null" /\ res.kind = "tensor"
                         /\ arg \in ReductionArgs =>
        {res.data} = { r.res.data : r \in reductionFn(this, CalledTexts, this.cache) }

\* C6: for every input text encode never reaches the error "Byte ... not
\* found in byteEncoder"
C6_EncodeNeverThrows == Returned("encode") => res.kind = "ids"

\* C7: the ids the encoder assigns are exactly 0..N-1 without gaps or
\* duplicates, N the number of symbols of the vocabulary, and encoder and
\* decoder are mutually inverse
C7_VocabularyIdsContiguous ==
    config \in Configs =>
    LET N == Cardinality(DOMAIN this.decoder)
    IN  /\ { this.encoder[t] : t \in DOMAIN this.encoder } = 0..(N - 1)
        /\ Cardinality(DOMAIN this.encoder) = N
        /\ \A t \in DOMAIN this.encoder : this.decoder[this.encoder[t]] = t
        /\ \A i \in DOMAIN this.decoder : this.encoder[this.decoder[i]] = i

\* C8: after any earlier calls, encode(t) returns what a freshly constructed
\* instance returns for t: the merge cache never changes the output
C8_CacheNeverChangesEncode ==
    Returned("encode") => res = EncodeResult(FreshEncode(arg.value))

\* an encode call that found a chunk of its text in the cache, left there by
\* an earlier call
C8_Witness ==
    /\ Returned("encode")
    /\ res.kind = "ids"
    /\ \E token \in Range(match(cleanFn(this.clean, arg.value), this.specialTokens)) :
          /\ HasByteEncoding(token)
          /\ EncodeToken(token) \in DOMAIN prior
          /\ EncodeToken(token) \notin DOMAIN this.cache

\* the row of text i (0-based) of the last tokenize call is the truncation of
\* its wrapped encoding
TruncatedRow(i) ==
    LET ids == FreshEncode(CalledTexts[i + 1]).ids
        L == this.contextLength
    IN  Len(ids) + 2 > L =>
            /\ Len(Row(res, i)) = L
            /\ Row(res, i) = <<this.sotTokenId>> \o SubSeq(ids, 1, L - 2) \o <<this.eotTokenId>>
            /\ Row(res, i)[L] = this.eotTokenId

C10_PaddedRow ==
    Returned("tokenize") /\ res.kind = "tensor" =>
        \A i \in 0..(Len(CalledTexts) - 1) :
            LET ids == FreshEncode(CalledTexts[i + 1]).ids
                L == this.contextLength
            IN  Len(ids) + 2 <= L =>
                    Row(res, i) = <<this.sotTokenId>> \o ids \o <<this.eotTokenId>>
                                  \o [k \in 1..(L - Len(ids) - 2) |-> 0]

\* tokenize returned the row of the empty string, with padding after eot
C10_Witness ==
    /\ Returned("tokenize")
    /\ res.kind = "tensor"
    /\ \E i \in 0..(Len(CalledTexts) - 1) :
          /\ CalledTexts[i + 1] = <<>>
          /\ Len(Row(res, i)) > 2
          /\ Row(res, i)[3] = 0

\* row i (0-based) of the last tokenize call against the result single of
\* tokenize(texts[i]): when the single call returns a row, the batch returns
\* a buffer whose row i is that row
SameRow(i, single) ==
    single.kind = "tensor" => res.kind = "tensor" /\ Row(res, i) = single.data

\* C11: for every batch of texts, row i of tokenize(texts) equals the single
\* row of tokenize(texts[i]): no row is affected by another row
C11_RowsIndependent ==
    Returned("tokenize") =>
        \A i \in 0..(Len(CalledTexts) - 1) :
            SameRow(i, tokenize(this, <<CalledTexts[i + 1]>>, this.cache).res)

\* a non-empty string of lowercase ASCII letters
IsLowerWord(w) == w # <<>> /\ \A i \in DOMAIN w : w[i] \in 97..122

\* the cleaned text is one chunk of lowercase ASCII letters
SingleLowerWord(self, w) ==
    IsLowerWord(w) /\ match(w, self.specialTokens) = <<w>>

\* decode(encode(text)) of the last round trip is the cleaned text w followed
\* by exactly one space
RoundTripOf(w) == res.value = w \o <<SP>>

\* the last call was the decode of a round trip decode(encode(text))
RoundTripReturned == Returned("decode") /\ "text" \in DOMAIN arg

\* C12 as stated: for every text that normalizes to a single chunk w of
\* lowercase ASCII letters, decode(encode(text)) is w followed by exactly one
\* space, with no marker text left
C12_RoundTripSingleWord_AnyWord ==
    RoundTripReturned /\ SingleLowerWord(this, cleanFn(this.clean, arg.text)) =>
        RoundTripOf(cleanFn(this.clean, arg.text))

\* C12: for every text that normalizes to a single chunk w of lowercase ASCII
\* letters that is not a special token, decode(encode(text)) is w followed by
\* exactly one space, with no marker text left
C12_RoundTripSingleWord ==
    /\ RoundTripReturned
    /\ SingleLowerWord(this, cleanFn(this.clean, arg.text))
    /\ cleanFn(this.clean, arg.text) \notin Range(this.specialTokens)
    => RoundTripOf(cleanFn(this.clean, arg.text))

\* decode(encode("aa")) has returned "aa " after the merge of "a a</w>"
C12_Witness ==
    /\ RoundTripReturned
    /\ arg.text = <<97, 97>> /\ Len(arg.ids) = 1
    /\ <<97, 97>> \notin Range(this.specialTokens)
    /\ res.value = <<97, 97, SP>>

\* the symbols of the byte encoder
ByteSymbols == {byteEncoder[b] : b \in DOMAIN byteEncoder}

\* the byte encoder maps every byte value to one character that the byte
\* decoder maps back, and no two byte values to the same character
ByteCodecBijective ==
    /\ DOMAIN byteEncoder = 0..255
    /\ \A b \in 0..255 :
          /\ Len(byteEncoder[b]) = 1
          /\ byteEncoder[b][1] \in DOMAIN byteDecoder
          /\ byteDecoder[byteEncoder[b][1]] = b
    /\ Cardinality(ByteSymbols) = 256
    /\ DOMAIN byteDecoder = {s[1] : s \in ByteSymbols}

\* C13: for every byte value b in 0..255 the byte decoder applied to the byte
\* encoder's symbol for b returns b, and the byte encoder is a total bijection
\* from the 256 byte values onto 256 distinct single-character symbols
C13_ByteCodecBijection == config \in Configs => ByteCodecBijective

\* decode(encode("a")) has taken byte 97 through the encoder and back, on an
\* instance whose gap byte 0 has the symbol of code unit 256
C13_Witness ==
    /\ Returned("decode") /\ "text" \in DOMAIN arg
    /\ arg.text = <<97>> /\ res.bytes # <<>> /\ res.bytes[1] = 97
    /\ byteEncoder[0] = <<256>> /\ byteDecoder[256] = 0

\* the last bpe call was given a chunk of exactly one symbol
BpeOfOneSymbol == Returned("bpe") /\ Len(arg.value) = 1

\* bpe returned the chunk with the word-final marker appended, and the chunk
\* has no adjacent pair that would start the merge loop
ReturnedWithMarker ==
    /\ Len(getPairs(InitialWord(arg.value))) = 0
    /\ res.value = arg.value \o EndOfWord

\* C14 as stated: bpe on a chunk of exactly one symbol returns that symbol plus
\* the word-final marker, without entering the merge loop, whatever the merge
\* table contains
C14_SingleSymbol_AnyChunk == BpeOfOneSymbol => ReturnedWithMarker

\* C14: bpe on a chunk of exactly one symbol that is not a special token
\* returns that symbol plus the word-final marker, without entering the merge
\* loop, whatever the merge table contains
C14_SingleSymbol ==
    BpeOfOneSymbol /\ arg.value \notin Range(this.specialTokens) =>
        ReturnedWithMarker

\* bpe("a") has returned "a</w>" under the merge file that holds "a a"
C14_Witness ==
    /\ BpeOfOneSymbol /\ arg.value \notin Range(this.specialTokens)
    /\ config.bpePath = 2
    /\ res.value = <<97>> \o EndOfWord

\* the symbol t has the id p: the encoder gives p for t and position p of the
\* vocabulary holds t
HasId(self, t, p) ==
    /\ t \in DOMAIN self.encoder /\ self.encoder[t] = p
    /\ p \in DOMAIN self.decoder /\ self.decoder[p] = t

\* the merged pair with its space removed
NoSpaces(merge) == SelectSeq(merge, LAMBDA c : c # SP)

\* the number of merge rules of the merge table
MergeCount(self) == Cardinality(DOMAIN self.bpeRanks)

\* C15: the vocabulary is laid out with ids equal to positions: the 256
\* byte-encoded base symbols (0..255), the same symbols with the word-final
\* marker (256..511), one symbol per merge rule in rank order (the merge of
\* rank k has id 512 + k), then start-of-text, end-of-text and the additional
\* special tokens
C15_VocabularyLayout ==
    config \in Configs =>
    /\ \A i \in 1..256 :
          /\ HasId(this, byteEncoderValues[i], i - 1)
          /\ HasId(this, byteEncoderValues[i] \o EndOfWord, 255 + i)
    /\ \A m \in DOMAIN this.bpeRanks :
          HasId(this, NoSpaces(m), 512 + this.bpeRanks[m])
    /\ \A j \in 1..Len(this.specialTokens) :
          HasId(this, this.specialTokens[j], 512 + MergeCount(this) + j - 1)
    /\ DOMAIN this.decoder =
          0..(512 + MergeCount(this) + Len(this.specialTokens) - 1)

\* the configuration names a cleaning or a reduction strategy outside the
\* recognized sets
UnrecognizedName(cfg) ==
    \/ cfg.clean \notin {"canonicalize", "lower", "whitespace"}
    \/ cfg.reductionMask \notin {"null", "simple", "random", "shuffle", "syntax"}

\* C16: constructing a tokenizer with a cleaning strategy name or a reduction
\* strategy name outside the recognized set fails at construction: no
\* tokenizer instance is produced
C16_UnknownNameFailsConstruction ==
    UnrecognizedName(config) => pc = "failed" /\ ncalls = 0

\* word with the adjacent pair at positions i, i + 1 merged into one symbol
MergedAt(word, i) ==
    SubSeq(word, 1, i - 1) \o <<word[i] \o word[i + 1]>> \o SubSeq(word, i + 2, Len(word))

\* the positions of word whose adjacent pair is a rule of the merge table
MergeableAt(bpeRanks, word) ==
    { i \in 1..(Len(word) - 1) : (word[i] \o <<SP>> \o word[i + 1]) \in DOMAIN bpeRanks }

RECURSIVE MergeResults(_, _)
\* every symbol sequence that some sequence of merge-table merges makes of word
MergeResults(bpeRanks, word) ==
    {word} \cup UNION { MergeResults(bpeRanks, MergedAt(word, i)) :
                          i \in MergeableAt(bpeRanks, word) }

\* the fewest symbols that a sequence of merge-table merges can leave of word
FewestSymbols(bpeRanks, word) ==
    CHOOSE n \in 1..Len(word) :
        /\ \E w \in MergeResults(bpeRanks, word) : Len(w) = n
        /\ \A w \in MergeResults(bpeRanks, word) : Len(w) >= n

\* the last call was bpe on a chunk that is not a special token
BpeOfChunk == Returned("bpe") /\ arg.value \notin Range(this.specialTokens)

\* the symbols of the string bpe returned
ReturnedSymbols == SplitSpace(res.value)

\* C17 as stated: bpe returns the chunk merged into the fewest symbols: no
\* other sequence of merge-table merges applied to the initial symbol sequence
\* of the chunk yields fewer symbols than the returned result
C17_BpeFewestSymbols ==
    BpeOfChunk =>
        Len(ReturnedSymbols) = FewestSymbols(this.bpeRanks, InitialWord(arg.value))

\* C17: bpe returns a symbol sequence that a sequence of merge-table merges
\* makes of the initial symbol sequence of the chunk, never longer than that
\* sequence; it need not be one of the fewest symbols
C17_BpeIsAMerging ==
    BpeOfChunk =>
        /\ ReturnedSymbols \in MergeResults(this.bpeRanks, InitialWord(arg.value))
        /\ Len(ReturnedSymbols) <= Len(InitialWord(arg.value))

\* bpe("aba") has returned "ab a</w>" under the merge file in which "b a</w>"
\* and then "a ba</w>" would leave the single symbol "aba</w>"
C17_Witness ==
    /\ BpeOfChunk /\ arg.value = <<97, 98, 97>>
    /\ ReturnedSymbols = << <<97, 98>>, <<97>> \o EndOfWord >>
    /\ FewestSymbols(this.bpeRanks, InitialWord(arg.value)) = 1

\* the rank of p is at most the rank of q, a pair absent from the merge table
\* ranking as infinite
RankAtMost(bpeRanks, p, q) ==
    \/ q \notin DOMAIN bpeRanks
    \/ p \in DOMAIN bpeRanks /\ bpeRanks[p] <= bpeRanks[q]

\* the leftmost adjacent pair of word that has the minimal rank among all its
\* adjacent pairs
LeftmostMinimalPair(bpeRanks, word) ==
    getPairs(word)[
        CHOOSE i \in 1..(Len(word) - 1) :
            /\ \A j \in 1..(Len(word) - 1) :
                  RankAtMost(bpeRanks, getPairs(word)[i], getPairs(word)[j])
            /\ \A j \in 1..(i - 1) :
                  ~RankAtMost(bpeRanks, getPairs(word)[j], getPairs(word)[i]) ]

RECURSIVE ReplacePair(_, _, _)
\* word with every non-overlapping occurrence, from left to right, of the
\* adjacent pair first, second replaced by the single symbol first \o second
ReplacePair(word, first, second) ==
    IF word = <<>> THEN <<>>
    ELSE IF Len(word) >= 2 /\ word[1] = first /\ word[2] = second
    THEN <<first \o second>> \o ReplacePair(Tail(Tail(word)), first, second)
    ELSE <<word[1]>> \o ReplacePair(Tail(word), first, second)

\* one iteration on word chooses the leftmost pair of minimal rank and, when
\* the merge table holds it, replaces its occurrences
IterationAsStated(bpeRanks, word) ==
    /\ Bigram(bpeRanks, word) = LeftmostMinimalPair(bpeRanks, word)
    /\ Bigram(bpeRanks, word) \in DOMAIN bpeRanks =>
          \E i \in 1..(Len(word) - 1) :
              /\ getPairs(word)[i] = Bigram(bpeRanks, word)
              /\ NewWord(word, Bigram(bpeRanks, word)) =
                     ReplacePair(word, word[i], word[i + 1])

\* the last bpe call was given a chunk that enters the merge loop
BpeOfLongChunk == BpeOfChunk /\ Len(arg.value) >= 2

\* C18: in each iteration of the bpe loop the pair chosen is the leftmost
\* adjacent pair of minimal rank among all adjacent pairs, pairs absent from
\* the table ranking as infinite, and the new sequence is the old one with
\* every non-overlapping, left-to-right occurrence of exactly that pair
\* replaced by the concatenated symbol, all other symbols unchanged in order
C18_IterationMergesLeftmostMinimal ==
    BpeOfLongChunk =>
        \A word \in LoopWords(this.bpeRanks, InitialWord(arg.value)) :
            IterationAsStated(this.bpeRanks, word)

\* bpe("aaaaa") has returned "aa a aa</w>": its second iteration merged the
\* first of two overlapping occurrences of "a a"
C18_Witness ==
    /\ BpeOfLongChunk /\ arg.value = <<97, 97, 97, 97, 97>>
    /\ Cardinality(LoopWords(this.bpeRanks, InitialWord(arg.value))) = 3
    /\ ReturnedSymbols = << <<97, 97>>, <<97>>, <<97, 97>> \o EndOfWord >>

\* C19: when bpe returns for a chunk that is not a special token, the returned
\* symbol sequence has length 1 or contains no adjacent pair that is in the
\* merge table
C19_NoMergeLeft ==
    BpeOfChunk =>
        \/ Len(ReturnedSymbols) = 1
        \/ MergeableAt(this.bpeRanks, ReturnedSymbols) = {}

\* bpe("ababa") has returned the two symbols "ab aba</w>" after two merges, and
\* the merge table does not hold their pair
C19_Witness ==
    /\ BpeOfChunk /\ arg.value = <<97, 98, 97, 98, 97>>
    /\ ReturnedSymbols = << <<97, 98>>, <<97, 98, 97>> \o EndOfWord >>
    /\ MergeableAt(this.bpeRanks, ReturnedSymbols) = {}

\* the number of iterations of the merge loop for word
Iterations(bpeRanks, word) ==
    IF Len(word) < 2 THEN 0 ELSE Cardinality(LoopWords(bpeRanks, word))

\* every iteration on a word of the loop that does not exit leaves a strictly
\* shorter word
EveryMergeShortens(bpeRanks, words) ==
    \A word \in words :
        Bigram(bpeRanks, word) \in DOMAIN bpeRanks =>
            Len(NewWord(word, Bigram(bpeRanks, word))) < Len(word)

\* C20: the bpe merge loop terminates for every chunk and merge table: every
\* iteration that does not exit strictly shortens the symbol sequence, so a
\* chunk of n symbols finishes in at most n - 1 iterations
C20_LoopShortensAndTerminates ==
    BpeOfLongChunk =>
        /\ EveryMergeShortens(this.bpeRanks,
                              LoopWords(this.bpeRanks, InitialWord(arg.value)))
        /\ Iterations(this.bpeRanks, InitialWord(arg.value))
              <= Len(InitialWord(arg.value)) - 1
        /\ res.kind = "string"

\* bpe("aba") has returned after n - 1 = 2 iterations: one merge and one
\* iteration that found no pair of the merge table
C20_Witness ==
    /\ BpeOfLongChunk /\ arg.value = <<97, 98, 97>>
    /\ Iterations(this.bpeRanks, InitialWord(arg.value)) = 2
    /\ Len(ReturnedSymbols) = 2

\* C21: after any call bpe(c) returns, the merge cache holds an entry keyed by
\* c whose value is the returned result, single-symbol chunks included
C21_BpeResultIsCached ==
    Returned("bpe") =>
        arg.value \in DOMAIN cache /\ cache[arg.value] = res.value

\* a step of the instance: the byte codec, the encoder, the decoder and the
\* merge rank table are those the constructor made of the configuration, so
\* they are unchanged exactly when the configuration is; a decode call and
\* the caller taking a result leave the cache unchanged as well
OnlyCacheChanges ==
    /\ config' = config
    /\ pc' = "returned" /\ op' = "decode" => cache' = cache
    /\ pc' = "idle" => cache' = cache

IsWordFinal(symbol) ==
    Len(symbol) >= Len(EndOfWord)
    /\ PrefixAt(symbol, Len(symbol) - Len(EndOfWord) + 1, EndOfWord)

\* the number of ids of the sequence whose symbol is word-final
WordFinalCount(self, ids) ==
    Cardinality({ i \in DOMAIN ids :
                    ids[i] \in DOMAIN self.decoder /\ IsWordFinal(self.decoder[ids[i]]) })

\* C23: decode replaces the end-of-word marker with a space at every
\* occurrence: for any id sequence the decoded text contains no word-final
\* marker and has one space per word-final symbol
C23_DecodeReplacesEveryMarker ==
    Returned("decode") =>
        /\ Occurrences(res.value, EndOfWord) = 0
        /\ Occurrences(res.value, <<SP>>) = WordFinalCount(this, arg.ids)

\* the merge lines the constructor consumed
ConsumedMerges == readBPEVocab(config.bpePath)

\* the ranks the merge rank table assigns
AssignedRanks == { this.bpeRanks[m] : m \in DOMAIN this.bpeRanks }

\* C24: the merge rank table assigns ranks that are unique and dense, exactly
\* 0..M-1 for M consumed merge lines, and the rank of each merge rule is its
\* position among the consumed non-blank lines after the header line
C24_RanksUniqueAndDense ==
    config \in Configs =>
        /\ AssignedRanks = 0..(Len(ConsumedMerges) - 1)
        /\ Cardinality(DOMAIN this.bpeRanks) = Len(ConsumedMerges)
        /\ \A i \in DOMAIN ConsumedMerges :
              this.bpeRanks[ConsumedMerges[i]] = i - 1

\* the last call was the reduction function name, it returned a buffer, and
\* the context length is 2 or more
ReductionReturned(name) ==
    /\ Returned("reduction") /\ this.reductionFn = name
    /\ res.kind = "tensor" /\ this.contextLength >= 2

\* sot, the window of L-2 ids of the encoding that starts at offset start, eot
WindowRow(ids, start) ==
    <<this.sotTokenId>> \o SubSeq(ids, start + 1, start + this.contextLength - 2)
                       \o <<this.eotTokenId>>

\* the start offsets of the windows of L-2 ids of the encoding
WindowStarts(ids) == 0..(Len(ids) - (this.contextLength - 2))

\* the rows that the reduction function can return for text i (0-based) of the
\* last call, started with the cache the call found
PossibleRows(i) ==
    { Row(r.res, i) : r \in reductionFn(this, CalledTexts, prior) }

\* row i of the last simple reduction, ids being the encoding of its text
SimpleRow(i, ids) ==
    Len(ids) > this.contextLength - 2 =>
        /\ Len(Row(res, i)) = this.contextLength
        /\ \E start \in WindowStarts(ids) : Row(res, i) = WindowRow(ids, start)
        /\ \A start \in WindowStarts(ids) : WindowRow(ids, start) \in PossibleRows(i)

DistinctPositions(n) ==
    { p \in [1..(this.contextLength - 2) -> 1..n] :
        \A j, k \in 1..(this.contextLength - 2) : p[j] = p[k] => j = k }

\* the positions ascend
Ascending(p) == \A j, k \in DOMAIN p : j < k => p[j] < p[k]

\* sot, the ids at the positions p of the encoding in the order of p, eot
KeptRow(ids, p) ==
    <<this.sotTokenId>> \o [k \in DOMAIN p |-> ids[p[k]]] \o <<this.eotTokenId>>

\* row i of the last random or shuffle reduction, ids being the encoding of
\* its text: under random the positions kept ascend
RandomRow(i, ids, sorted) ==
    Len(ids) > this.contextLength - 2 =>
        \E p \in DistinctPositions(Len(ids)) :
            /\ sorted => Ascending(p)
            /\ Row(res, i) = KeptRow(ids, p)

\* C26: under the random and the shuffle reduction policy with contextLength
\* L >= 2, for an oversized encoding the kept ids are the ids at exactly L-2
\* pairwise distinct positions of the encoding, under random in ascending
\* position order, under shuffle in draw order; the row is sot, the kept ids,
\* eot
C26_RandomKeepsDistinctPositions ==
    /\ ReductionReturned("random") =>
          \A i \in 0..(Len(CalledTexts) - 1) :
              RandomRow(i, FreshEncode(CalledTexts[i + 1]).ids, TRUE)
    /\ ReductionReturned("shuffle") =>
          \A i \in 0..(Len(CalledTexts) - 1) :
              RandomRow(i, FreshEncode(CalledTexts[i + 1]).ids, FALSE)

\* the random reduction has returned, for the three ids of "a!aa" and L = 4,
\* the first and the third id in that order
C26_Witness ==
    /\ ReductionReturned("random") /\ this.contextLength = 4
    /\ CalledTexts = <<ThreeChunks>>
    /\ Len(FreshEncode(ThreeChunks).ids) = 3
    /\ Row(res, 0) = KeptRow(FreshEncode(ThreeChunks).ids, <<1, 3>>)

\* text with its whitespace removed
WithoutSpace(text) == SelectSeq(text, LAMBDA c : ~IsSpace(c))

\* the chunks the segmenter makes of the cleaned text, concatenated in output
\* order, are the cleaned text without its whitespace
ChunksCover(cleaned) ==
    Flatten(match(cleaned, this.specialTokens)) = WithoutSpace(cleaned)

\* C27: the chunks of the segmenter, concatenated in output order, equal the
\* cleaned text with its whitespace removed: the chunks keep the original
\* order and no non-whitespace character is dropped or duplicated
C27_ChunksCoverText ==
    Returned("encode") => ChunksCover(cleanFn(this.clean, arg.value))

\* encode("a  !") has returned after the segmenter cut the cleaned text "a !"
\* into the chunks "a" and "!"
C27_Witness ==
    /\ Returned("encode") /\ arg.value = <<97, SP, SP, 33>>
    /\ cleanFn(this.clean, arg.value) = <<97, SP, 33>>
    /\ match(cleanFn(this.clean, arg.value), this.specialTokens) = << <<97>>, <<33>> >>

\* the retrieval has missed the cache and is about to look at the local
\* path, where the file does not exist, and remote models are allowed
LocalMiss ==
    /\ hub.pc = "local"
    /\ ~hub.files.local
    /\ hub.env.allowRemoteModels

\* C28: in the retrieval chain of getModelFile, when the file is not found in
\* the cache and does not exist at the local path, and remote models are
\* allowed, the file is fetched from the remote URL: a local miss falls
\* through to the remote fetch
C28_LocalMissFallsThrough == LocalMiss ~> ("remoteURL" \in hub.requested)

\* C29: for every chunk that is not a special token and every merge table, the
\* pieces of bpe(chunk), concatenated with the separating spaces removed, equal
\* the chunk followed by the word-final marker: merging never drops,
\* duplicates or reorders characters
C29_MergingKeepsCharacters ==
    BpeOfChunk => Flatten(ReturnedSymbols) = arg.value \o EndOfWord

\* bpe of a chunk of five characters has returned fewer pieces than the chunk
\* has characters, one of them the product of two merges
C29_Witness ==
    /\ BpeOfChunk /\ Len(arg.value) = 5
    /\ Len(ReturnedSymbols) \in 2..4
    /\ \E k \in 1..Len(ReturnedSymbols) : Len(ReturnedSymbols[k]) = 3 + Len(EndOfWord)
    /\ Flatten(ReturnedSymbols) = arg.value \o EndOfWord

\* a chunk of one character or more, each a symbol of the byte encoder
MadeOfByteSymbols(chunk) ==
    /\ chunk # <<>>
    /\ \A i \in DOMAIN chunk : <<chunk[i]>> \in ByteSymbols

\* every piece of the string bpe returned is a symbol of the vocabulary
PiecesInVocabulary(out) ==
    \A piece \in Range(SplitSpace(out)) : piece \in DOMAIN this.encoder

\* the chunks of the last encode call, byte-encoded as encode hands them to bpe
EncodedChunks ==
    LET tokens == match(cleanFn(this.clean, arg.value), this.specialTokens)
    IN  [i \in DOMAIN tokens |-> EncodeToken(tokens[i])]

\* a piece that is the concatenation of a merge rule
IsMergedPiece(piece) == \E m \in DOMAIN this.bpeRanks : piece = NoSpaces(m)

\* C30: for every chunk made of byte-encoder symbols, every piece that bpe
\* returns is a symbol of the constructed vocabulary, so encode never drops a
\* piece of such a chunk for being absent from the vocabulary
C30_PiecesAreInVocabulary ==
    /\ Returned("bpe") /\ MadeOfByteSymbols(arg.value) => PiecesInVocabulary(res.value)
    /\ Returned("encode") /\ res.kind = "ids" =>
          \A chunk \in Range(EncodedChunks) :
              /\ MadeOfByteSymbols(chunk)
              /\ PiecesInVocabulary(bpe(this, chunk, cache).out)

\* encode has returned the ids of a text with a chunk that bpe merged: one of
\* its pieces is the concatenation of a merge rule and has an id
C30_Witness ==
    /\ Returned("encode") /\ res.kind = "ids" /\ res.ids # <<>>
    /\ \E chunk \in Range(EncodedChunks) :
          \E piece \in Range(SplitSpace(bpe(this, chunk, cache).out)) :
              IsMergedPiece(piece) /\ piece \in DOMAIN this.encoder

====
